---- MODULE Spec2Model ----
(***************************************************************************)
(* Child-element traversal and naming utilities of react-spectrum-charts   *)
(* (src/utils/utils.ts) and the useTooltips hook that calls them.          *)
(*                                                                         *)
(* JavaScript strings are sequences of one-character strings, so that      *)
(* toCamelCase's tokenizer and the template literals that build segment    *)
(* names are computed character by character.                              *)
(***************************************************************************)
EXTENDS Integers, Sequences, FiniteSets, TLC

\* ------------------------------------------------------------- characters

Lowers == <<"a","b","c","d","e","f","g","h","i","j","k","l","m",
            "n","o","p","q","r","s","t","u","v","w","x","y","z">>
Uppers == <<"A","B","C","D","E","F","G","H","I","J","K","L","M",
            "N","O","P","Q","R","S","T","U","V","W","X","Y","Z">>
Digits == <<"0","1","2","3","4","5","6","7","8","9">>

Range(f) == { f[i] : i \in DOMAIN f }
IndexIn(f, c) == CHOOSE i \in DOMAIN f : f[i] = c

\* the regular expression's character classes [A-Z], [a-z], \d and \w
IsUpper(c) == c \in Range(Uppers)
IsLower(c) == c \in Range(Lowers)
IsDigit(c) == c \in Range(Digits)
IsWordChar(c) == IsUpper(c) \/ IsLower(c) \/ IsDigit(c) \/ c = "_"

\* String.prototype.toLowerCase / toUpperCase, one character
LowerChar(c) == IF IsUpper(c) THEN Lowers[IndexIn(Uppers, c)] ELSE c
UpperChar(c) == IF IsLower(c) THEN Uppers[IndexIn(Lowers, c)] ELSE c
toLowerCase(s) == [i \in 1..Len(s) |-> LowerChar(s[i])]
toUpperCase(s) == [i \in 1..Len(s) |-> UpperChar(s[i])]

Max(S) == CHOOSE x \in S : \A y \in S : y <= x
Min(S) == CHOOSE x \in S : \A y \in S : x <= y

\* ------------------------------------------------------------ toCamelCase

\* the index just after the longest run of characters of a class starting at p
RunEnd(s, p, class) ==
  Min({ q \in p..(Len(s) + 1) : q = Len(s) + 1 \/ s[q] \notin class })

\* \b at p: exactly one of the characters before and at p is a word character
WordBoundary(s, p) ==
  LET isWordAt(i) == i \in 1..Len(s) /\ IsWordChar(s[i])
  IN  isWordAt(p - 1) # isWordAt(p)

\* (?=[A-Z][a-z]+\d*|\b) at p
Lookahead(s, p) ==
  \/ p + 1 <= Len(s) /\ IsUpper(s[p]) /\ IsLower(s[p + 1])
  \/ WordBoundary(s, p)

\* Each alternative: the index just after its match at p, or 0 when it fails.
\* [A-Z]{2,}(?=...): greedy, backtracking to the longest run the lookahead accepts
AltUpperRun(s, p) ==
  LET ends == { q \in (p + 2)..RunEnd(s, p, Range(Uppers)) : Lookahead(s, q) }
  IN  IF ends = {} THEN 0 ELSE Max(ends)

\* [A-Z]?[a-z]+\d*
AltWord(s, p) ==
  LET l == IF IsUpper(s[p]) /\ p + 1 <= Len(s) /\ IsLower(s[p + 1]) THEN p + 1
           ELSE IF IsLower(s[p]) THEN p
           ELSE 0
  IN  IF l = 0 THEN 0 ELSE RunEnd(s, RunEnd(s, l, Range(Lowers)), Range(Digits))

\* [A-Z]
AltUpper(s, p) == IF IsUpper(s[p]) THEN p + 1 ELSE 0

\* \d+
AltDigits(s, p) == IF IsDigit(s[p]) THEN RunEnd(s, p, Range(Digits)) ELSE 0

\* the alternation: the first alternative, in order, that matches
FirstMatch(ends) ==
  LET hits == { k \in DOMAIN ends : ends[k] # 0 }
  IN  IF hits = {} THEN 0 ELSE ends[Min(hits)]

MatchAt(s, p) ==
  FirstMatch(<<AltUpperRun(s, p), AltWord(s, p), AltUpper(s, p), AltDigits(s, p)>>)

\* str.match(/.../g): every match scanning left to right (<<>> stands for null)
RECURSIVE MatchFrom(_, _)
MatchFrom(s, p) ==
  IF p > Len(s) THEN <<>>
  ELSE LET e == MatchAt(s, p)
       IN  IF e = 0 THEN MatchFrom(s, p + 1)
           ELSE <<SubSeq(s, p, e - 1)>> \o MatchFrom(s, e)

MatchWords(s) == MatchFrom(s, 1)

RECURSIVE Join(_)
Join(words) == IF words = <<>> THEN <<>> ELSE Head(words) \o Join(Tail(words))

CamelWord(word, i) ==
  IF i = 1 THEN toLowerCase(word)
  ELSE toUpperCase(SubSeq(word, 1, 1)) \o toLowerCase(SubSeq(word, 2, Len(word)))

toCamelCase(str) ==
  LET words == MatchWords(str)
  IN  IF words # <<>> THEN Join([i \in 1..Len(words) |-> CamelWord(words[i], i)])
      ELSE str

\* -------------------------------------------------------------- JS values

\* A value that can stand where a chart child stands.  ref is the identity
\* of an object (its place in the caller's tree); primitives carry none.
Undefined == [kind |-> "undefined"]
Null == [kind |-> "null"]
Bool(b) == [kind |-> "boolean", value |-> b]
Str(s) == [kind |-> "string", value |-> s]
\* an object with no type field
Obj(ref) == [kind |-> "object", ref |-> ref]
\* an array (a children array, or a ReactFragment value among the children)
Arr(ref, items) == [kind |-> "array", ref |-> ref, items |-> items]
\* a function, such as the callback a ChartTooltip holds as its children
Callback == [kind |-> "function"]
\* a React element: type is the component identity, props the property bag
Elem(ref, type, props) == [kind |-> "element", ref |-> ref, type |-> type, props |-> props]

\* a props object holding the keys of keys, among name and children
Props(keys, name, children) ==
  [k \in keys |-> IF k = "name" THEN name ELSE children]

\* typeof v
TypeOf(v) ==
  CASE v.kind = "undefined" -> "undefined"
    [] v.kind = "boolean" -> "boolean"
    [] v.kind = "string" -> "string"
    [] v.kind = "function" -> "function"
    [] OTHER -> "object"

\* !v
Falsy(v) ==
  \/ v.kind \in {"undefined", "null"}
  \/ v.kind = "boolean" /\ ~v.value
  \/ v.kind = "string" /\ v.value = <<>>

\* 'type' in v, for an object v; TypeError when v is null
HasType(v) == v.kind = "element"

\* the component identities the traversal compares against
CountedTypes == {"Area", "Axis", "AxisAnnotation", "Bar", "Legend", "Line"}
SourceTypes == {"Axis", "Legend", "Line", "Bar", "ChartTooltip", "ChartPopover"}

\* what a function call yields: a returned value or a thrown TypeError
Return(v) == [threw |-> FALSE, value |-> v]
Throw == [threw |-> TRUE, error |-> "TypeError"]

\* ---------------------------------------------------------------- toArray

\* a single child that is not in an array is lost
toArray_DropSingle(children) ==
  IF children = Undefined THEN <<>>
  ELSE IF children.kind = "array" THEN children.items
  ELSE <<>>

toArray(children) ==
  IF children = Undefined THEN <<>>
  ELSE IF children.kind = "array" THEN children.items
  ELSE <<children>>

\* ------------------------------------------------------------- getElement

\* the gate shared by getElement and getAllElements: the value is not searched
NotSearchable(element) ==
  \/ Falsy(element)
  \/ TypeOf(element) = "boolean"
  \/ TypeOf(element) = "string"
  \/ ~HasType(element)
  \/ element.type = "Fragment"

RECURSIVE getElement(_, _)
RECURSIVE getElementLoop(_, _, _)
\* the loop keeps looking after a match, so a later sibling's match wins
ReturnIfFound_KeepLooking(children, i, type, desiredElement) ==
  IF ~Falsy(getElementLoop(children, i + 1, type)) THEN getElementLoop(children, i + 1, type)
  ELSE desiredElement

\* if (desiredElement) return desiredElement; otherwise the next child
ReturnIfFound(children, i, type, desiredElement) ==
  IF ~Falsy(desiredElement) THEN desiredElement
  ELSE getElementLoop(children, i + 1, type)

\* for (const child of toArray(element.props.children)), from the i-th child on
getElementLoop(children, i, type) ==
  IF i > Len(children) THEN Undefined
  ELSE ReturnIfFound(children, i, type, getElement(children[i], type))

getElement(element, type) ==
  IF NotSearchable(element) THEN Undefined
  ELSE IF element.type = type THEN element
  ELSE IF "children" \notin DOMAIN element.props THEN Undefined
  ELSE getElementLoop(toArray(element.props.children), 1, type)

\* ---------------------------------------------------------- name derivation

sArea == <<"a","r","e","a">>
sAxis == <<"a","x","i","s">>
sAnnotation == <<"A","n","n","o","t","a","t","i","o","n">>
sBar == <<"b","a","r">>
sLegend == <<"l","e","g","e","n","d">>
sLine == <<"l","i","n","e">>
sTrendline == <<"T","r","e","n","d","l","i","n","e">>

\* `${n}`: the decimal digits of a number
RECURSIVE NatToStr(_)
NatToStr(n) ==
  IF n < 10 THEN <<Digits[n + 1]>>
  ELSE NatToStr(n \div 10) \o <<Digits[(n % 10) + 1]>>
NumToStr(n) == IF n < 0 THEN <<"-">> \o NatToStr(0 - n) ELSE NatToStr(n)

\* counters seeded with 0 instead of -1
initElementCounts_FromZero ==
  [area |-> 0, axis |-> 0, axisAnnotation |-> 0, bar |-> 0, legend |-> 0, line |-> 0]

initElementCounts ==
  [area |-> -1, axis |-> -1, axisAnnotation |-> -1, bar |-> -1, legend |-> -1, line |-> -1]

\* the name property is ignored
getComponentName_IgnoreName(element, defaultName) == defaultName

getComponentName(element, defaultName) ==
  IF /\ TypeOf(element) = "object"
     /\ element.kind = "element"
     /\ "name" \in DOMAIN element.props
     /\ element.props.name # <<>>
  THEN toCamelCase(element.props.name)
  ELSE defaultName

\* the name returned together with the counts object as the call leaves it
Named(name, counts) == [threw |-> FALSE, value |-> name, counts |-> counts]

getElementName(element, elementCounts) ==
  IF TypeOf(element) # "object" THEN Named(<<>>, elementCounts)
  ELSE IF element.kind = "null" THEN Throw
  ELSE IF ~HasType(element) THEN Named(<<>>, elementCounts)
  ELSE CASE element.type = "Area" ->
              LET c == [elementCounts EXCEPT !.area = @ + 1]
              IN  Named(getComponentName(element, sArea \o NumToStr(c.area)), c)
         [] element.type = "Axis" ->
              LET c == [elementCounts EXCEPT !.axis = @ + 1]
              IN  Named(getComponentName(element, sAxis \o NumToStr(c.axis)), c)
         [] element.type = "AxisAnnotation" ->
              LET c == [elementCounts EXCEPT !.axisAnnotation = @ + 1]
              IN  Named(getComponentName(element, sAnnotation \o NumToStr(c.axisAnnotation)), c)
         [] element.type = "Bar" ->
              LET c == [elementCounts EXCEPT !.bar = @ + 1]
              IN  Named(getComponentName(element, sBar \o NumToStr(c.bar)), c)
         [] element.type = "Legend" ->
              LET c == [elementCounts EXCEPT !.legend = @ + 1]
              IN  Named(getComponentName(element, sLegend \o NumToStr(c.legend)), c)
         [] element.type = "Line" ->
              LET c == [elementCounts EXCEPT !.line = @ + 1]
              IN  Named(getComponentName(element, sLine \o NumToStr(c.line)), c)
         [] element.type = "Trendline" ->
              Named(getComponentName(element, sTrendline), elementCounts)
         [] OTHER -> Named(<<>>, elementCounts)

\* --------------------------------------------------------- getAllElements

\* the parent's name is not carried down
ComposeName_NoPrefix(name, childName) == childName

\* [name, childName].filter(Boolean).join('')
ComposeName(name, childName) ==
  Join(SelectSeq(<<name, childName>>, LAMBDA part : part # <<>>))

MappedElement(name, element) == [name |-> name, element |-> element]

\* A call's outcome, with the getElementName calls it made: for each, the
\* ref of the child named and the segment returned.
Found(elements, calls) == [threw |-> FALSE, value |-> elements, calls |-> calls]
Faulted(calls) == [threw |-> TRUE, error |-> "TypeError", calls |-> calls]

RECURSIVE getAllElements(_, _, _, _)
RECURSIVE getAllElementsLoop(_, _, _, _, _, _, _, _)

\* the counts are made afresh for every child instead of once per call
PushFound_FreshCounts(target, children, i, source, elements, name, childName, acc, found) ==
  IF found.threw
  THEN Faulted(acc.calls \o <<[ref |-> target.ref \o <<i>>, segment |-> childName.value]>>
                         \o found.calls)
  ELSE getAllElementsLoop(target, children, i + 1, source, elements, name, initElementCounts,
                          Found(acc.value \o found.value,
                                acc.calls
                                  \o <<[ref |-> target.ref \o <<i>>, segment |-> childName.value]>>
                                  \o found.calls))

\* desiredElements.push(...found), then the next child
PushFound(target, children, i, source, elements, name, childName, acc, found) ==
  IF found.threw
  THEN Faulted(acc.calls \o <<[ref |-> target.ref \o <<i>>, segment |-> childName.value]>>
                         \o found.calls)
  ELSE getAllElementsLoop(target, children, i + 1, source, elements, name, childName.counts,
                          Found(acc.value \o found.value,
                                acc.calls
                                  \o <<[ref |-> target.ref \o <<i>>, segment |-> childName.value]>>
                                  \o found.calls))

\* the loop body once childName is known
SearchChild(target, children, i, source, elements, name, childName, acc) ==
  IF childName.threw THEN Faulted(acc.calls)
  ELSE PushFound(target, children, i, source, elements, name, childName, acc,
                 getAllElements(children[i], source, elements,
                                ComposeName(name, childName.value)))

\* the for loop over toArray(target.props.children), from its i-th child on,
\* with the state it has reached: elementCounts and desiredElements (acc)
getAllElementsLoop(target, children, i, source, elements, name, elementCounts, acc) ==
  IF i > Len(children) THEN Found(elements \o acc.value, acc.calls)
  ELSE SearchChild(target, children, i, source, elements, name,
                   getElementName(children[i], elementCounts), acc)

getAllElements(target, source, elements, name) ==
  IF NotSearchable(target) THEN Found(elements, <<>>)
  ELSE IF target.type = source THEN Found(elements \o <<MappedElement(name, target)>>, <<>>)
  ELSE IF "children" \notin DOMAIN target.props THEN Found(elements, <<>>)
  ELSE getAllElementsLoop(target, toArray(target.props.children), 1, source, elements, name,
                          initElementCounts, Found(<<>>, <<>>))

\* ------------------------------------------------------------ useTooltips

\* { type: { name: 'Prism' }, props: { children } }
PrismRoot(children) == Elem(<<>>, "Prism", Props({"children"}, <<>>, children))

TooltipDetail(tooltip) ==
  [name |-> tooltip.name, callback |-> tooltip.element.props.children]

\* .filter((tooltip) => tooltip.element.props.children)
HasCallback(tooltip) ==
  /\ "children" \in DOMAIN tooltip.element.props
  /\ ~Falsy(tooltip.element.props.children)

\* tooltipElements.filter(...).map(...)
TooltipDetails(tooltipElements) ==
  IF tooltipElements.threw THEN tooltipElements
  ELSE [tooltipElements EXCEPT !.value =
          [j \in 1..Len(SelectSeq(@, HasCallback)) |-> TooltipDetail(SelectSeq(@, HasCallback)[j])]]

useTooltips(children) ==
  TooltipDetails(getAllElements(PrismRoot(children), "ChartTooltip", <<>>, <<>>))

\* ----------------------------------------------------------------- inputs

sMyCustomArea == <<"M","y"," ","C","u","s","t","o","m"," ","A","r","e","a">>
sMY_COOL_area2 == <<"M","Y","_","C","O","O","L","_","a","r","e","a","2">>

\* how many values (elements, nested arrays, primitives) a malformed tree holds
MaxMalformedNodes == 2
\* how many values a tree of wrappers, containers and axes holds
MaxTreeNodes == 4
\* how many elements the children of a chart hold
MaxChartNodes == 4
\* how many children a flat chart has
MaxSiblings == 2
\* the longest string handed to toCamelCase, the two literal names aside
MaxStrLen == 4

\* The shape of an element a family of inputs draws from: its type, the keys
\* of its props besides children, its name, and what its children may be:
\* "none" (no children key), "undefined", "empty" ([]), "kids" (a non-empty
\* array), "single" (one child, not in an array), "callback".
Shape(type, keys, name, kids) == [type |-> type, keys |-> keys, name |-> name, kids |-> kids]

RECURSIVE Vals(_, _, _)
RECURSIVE Forest(_, _, _, _)
\* every sequence of values holding m values in all, the first with ref p \o <<i>>
Forest(cfg, m, p, i) ==
  IF m = 0 THEN {<<>>}
  ELSE UNION { { <<v>> \o f : v \in Vals(cfg, k, p \o <<i>>),
                              f \in Forest(cfg, m - k, p, i + 1) } : k \in 1..m }

\* every value holding n values in all, itself included, with ref p
Vals(cfg, n, p) ==
  LET below == Forest(cfg, n - 1, p, 1)
      WithChildren(h, c) == Elem(p, h.type, Props(h.keys \cup {"children"}, h.name, c))
      leaf(h) ==
        (IF "none" \in h.kids THEN {Elem(p, h.type, Props(h.keys, h.name, Undefined))} ELSE {})
        \cup (IF "undefined" \in h.kids THEN {WithChildren(h, Undefined)} ELSE {})
        \cup (IF "empty" \in h.kids THEN {WithChildren(h, Arr(p, <<>>))} ELSE {})
        \cup (IF "callback" \in h.kids THEN {WithChildren(h, Callback)} ELSE {})
      inner(h) ==
        (IF "kids" \in h.kids THEN { WithChildren(h, Arr(p, f)) : f \in below } ELSE {})
        \cup (IF "single" \in h.kids
              THEN { WithChildren(h, f[1]) : f \in { g \in below : Len(g) = 1 /\ g[1].kind # "array" } }
              ELSE {})
  IN  IF n = 1
      THEN cfg.atoms \cup (IF cfg.arrays THEN {Arr(p, <<>>)} ELSE {})
           \cup UNION { leaf(h) : h \in cfg.heads }
      ELSE (IF cfg.arrays THEN { Arr(p, f) : f \in below } ELSE {})
           \cup UNION { inner(h) : h \in cfg.heads }

UpTo(cfg, n) == UNION { Vals(cfg, k, <<>>) : k \in 1..n }

\* malformed and absent input: every kind of value, in small trees
Malformed ==
  [atoms |-> {Undefined, Null, Bool(TRUE), Bool(FALSE), Str(<<"t">>), Str(<<>>), Obj(<<>>),
              Callback},
   arrays |-> TRUE,
   heads |-> { Shape(t, {}, <<>>, {"none", "undefined", "empty", "kids", "single"})
               : t \in {"Fragment", "Prism", "Axis"} }]

\* wrappers, containers of unrecognised type and axes, nested
Nested ==
  [atoms |-> {},
   arrays |-> FALSE,
   heads |-> { Shape(t, {}, <<>>, {"none", "kids"}) : t \in {"Fragment", "Prism", "Axis"} }]

\* a chart's children: marks and the tooltips they hold
Chart ==
  [atoms |-> {},
   arrays |-> FALSE,
   heads |-> { Shape("Area", {}, <<>>, {"none", "kids"}),
               Shape("Line", {}, <<>>, {"none", "kids"}),
               Shape("ChartTooltip", {}, <<>>, {"none", "callback"}) }]

\* the seven named kinds, without a name and with one (two also with an empty
\* one), and the two kinds that are only ever searched for
Kinds ==
  [atoms |-> {},
   arrays |-> FALSE,
   heads |-> { Shape(t, {}, <<>>, {"none"})
               : t \in CountedTypes \cup {"Trendline", "ChartTooltip", "ChartPopover"} }
             \cup { Shape(t, {"name"}, sMyCustomArea, {"none"}) : t \in CountedTypes \cup {"Trendline"} }
             \cup { Shape(t, {"name"}, <<>>, {"none"}) : t \in {"Area", "Trendline"} }]

\* the children of a chart: an array of elements holding at most n in all
ChartChildren(cfg, n) == { Arr(<<>>, f) : f \in UNION { Forest(cfg, m, <<>>, 1) : m \in 0..n } }
\* the children of a flat chart: at most n elements, none with children
FlatChildren(cfg, n) ==
  { Arr(<<>>, f) : f \in UNION { { g \in Forest(cfg, m, <<>>, 1) : Len(g) = m } : m \in 0..n } }

\* a record a caller already holds when it passes a non-empty accumulator
Earlier == MappedElement(<<"p">>, Elem(<<0>>, "Axis", Props({}, <<>>, Undefined)))

StrChars == {"A", "B", "a", "b", "1", "_", " "}
Strings == UNION { [1..n -> StrChars] : n \in 0..MaxStrLen } \cup {sMyCustomArea, sMY_COOL_area2}

VARIABLES op, target, source, elements, name, str, pc, result
vars == <<op, target, source, elements, name, str, pc, result>>

NoResult == [threw |-> FALSE]

InitToCamelCase ==
  /\ op = "toCamelCase" /\ str \in Strings
  /\ target = Undefined /\ source = "" /\ elements = <<>> /\ name = <<>>

InitGetElement ==
  /\ op = "getElement"
  /\ \/ /\ target \in UpTo(Malformed, MaxMalformedNodes) \cup UpTo(Nested, MaxTreeNodes)
        /\ source = "Axis"
     \/ /\ target \in { PrismRoot(c) : c \in FlatChildren(Kinds, MaxSiblings) }
        /\ source \in SourceTypes
  /\ str = <<>> /\ elements = <<>> /\ name = <<>>

InitGetAllElements ==
  /\ op = "getAllElements"
  /\ \/ /\ target \in UpTo(Malformed, MaxMalformedNodes)
        /\ source = "Axis"
        /\ elements \in {<<>>, <<Earlier>>}
        /\ name \in {<<>>, <<"p">>}
     \/ /\ target \in UpTo(Nested, MaxTreeNodes)
        /\ source = "Axis"
        /\ elements \in {<<>>, <<Earlier>>}
        /\ name = <<>>
     \/ /\ target \in { PrismRoot(c) : c \in ChartChildren(Chart, MaxChartNodes) }
        /\ source = "ChartTooltip"
        /\ elements = <<>>
        /\ name = <<>>
     \/ /\ target \in { PrismRoot(c) : c \in FlatChildren(Kinds, MaxSiblings) }
        /\ source \in SourceTypes
        /\ elements = <<>>
        /\ name = <<>>
  /\ str = <<>>

InitUseTooltips ==
  /\ op = "useTooltips"
  /\ target \in ChartChildren(Chart, MaxChartNodes)
  /\ source = "ChartTooltip" /\ elements = <<>> /\ name = <<>> /\ str = <<>>

Init ==
  /\ pc = "call"
  /\ result = NoResult
  /\ \/ InitToCamelCase
     \/ InitGetElement
     \/ InitGetAllElements
     \/ InitUseTooltips

ToCamelCase ==
  /\ pc = "call" /\ op = "toCamelCase"
  /\ result' = Return(toCamelCase(str))
  /\ pc' = "done"
  /\ UNCHANGED <<op, target, source, elements, name, str>>

GetElement ==
  /\ pc = "call" /\ op = "getElement"
  /\ result' = Return(getElement(target, source))
  /\ pc' = "done"
  /\ UNCHANGED <<op, target, source, elements, name, str>>

GetAllElements ==
  /\ pc = "call" /\ op = "getAllElements"
  /\ result' = getAllElements(target, source, elements, name)
  /\ pc' = "done"
  /\ UNCHANGED <<op, target, source, elements, name, str>>

UseTooltips ==
  /\ pc = "call" /\ op = "useTooltips"
  /\ result' = useTooltips(target)
  /\ pc' = "done"
  /\ UNCHANGED <<op, target, source, elements, name, str>>

Next == ToCamelCase \/ GetElement \/ GetAllElements \/ UseTooltips

Spec == Init /\ [][Next]_vars

\* ------------------------------------------------------------- properties

\* The tree a traversal was called on, and what it yielded.
Root == IF op = "useTooltips" THEN PrismRoot(target) ELSE target
Finished(o) == pc = "done" /\ op = o
Traversed == pc = "done" /\ op \in {"getAllElements", "useTooltips"}
Calls == Range(result.calls)

\* the values an element holds as its children, one entry each
ChildEntries(v) ==
  IF v.kind = "array" THEN v.items
  ELSE IF v.kind = "element" /\ "children" \in DOMAIN v.props
       THEN IF v.props.children.kind = "array" THEN v.props.children.items
            ELSE IF v.props.children.kind = "undefined" THEN <<>>
            ELSE <<v.props.children>>
       ELSE <<>>

RECURSIVE NodeAt(_, _)
NodeAt(v, path) ==
  IF path = <<>> THEN v ELSE NodeAt(ChildEntries(v)[path[1]], Tail(path))

\* every element located anywhere in v
RECURSIVE AllElems(_)
AllElems(v) ==
  (IF v.kind = "element" THEN {v} ELSE {})
  \cup UNION { AllElems(e) : e \in Range(ChildEntries(v)) }

IsProperPrefix(p, q) == Len(p) < Len(q) /\ SubSeq(q, 1, Len(p)) = p
ProperAncestors(root, e) == { a \in AllElems(root) : IsProperPrefix(a.ref, e.ref) }

\* depth-first pre-order on refs
Precedes(p, q) ==
  \/ IsProperPrefix(p, q)
  \/ \E k \in 1..Len(p) : k <= Len(q) /\ SubSeq(p, 1, k - 1) = SubSeq(q, 1, k - 1) /\ p[k] < q[k]

\* a node the searches enter: a typed element that is not a wrapper
Traversable(v) == v.kind = "element" /\ v.type # "Fragment"

\* the elements a search for X visits: from v down, through the children of
\* traversable elements that are not themselves of type X
RECURSIVE Visited(_, _)
Visited(v, X) ==
  IF ~Traversable(v) THEN {}
  ELSE {v} \cup (IF v.type = X THEN {}
                 ELSE UNION { Visited(e, X) : e \in Range(ChildEntries(v)) })

\* the elements reachable from v through traversable elements
RECURSIVE Reachable(_)
Reachable(v) ==
  IF ~Traversable(v) THEN {}
  ELSE {v} \cup UNION { Reachable(e) : e \in Range(ChildEntries(v)) }

HasNameOverride(v) ==
  v.kind = "element" /\ "name" \in DOMAIN v.props /\ v.props.name # <<>>

\* for a getElementName call: the child it named, its siblings, its place
Child(c) == NodeAt(Root, c.ref)
Siblings(c) == ChildEntries(NodeAt(Root, SubSeq(c.ref, 1, Len(c.ref) - 1)))
Place(c) == c.ref[Len(c.ref)]
ParentRef(c) == SubSeq(c.ref, 1, Len(c.ref) - 1)
EarlierOfKind(c) ==
  Cardinality({ j \in 1..(Place(c) - 1) :
                  Siblings(c)[j].kind = "element" /\ Siblings(c)[j].type = Child(c).type })
DefaultNamed(c) ==
  Child(c).kind = "element" /\ Child(c).type \in CountedTypes /\ ~HasNameOverride(Child(c))

\* the number a segment ends with
TrailingDigits(seg) ==
  SubSeq(seg, Min({ i \in 1..(Len(seg) + 1) : \A j \in i..Len(seg) : IsDigit(seg[j]) }), Len(seg))
RECURSIVE StrToNat(_)
StrToNat(ds) ==
  IF ds = <<>> THEN 0
  ELSE 10 * StrToNat(SubSeq(ds, 1, Len(ds) - 1)) + (IndexIn(Digits, ds[Len(ds)]) - 1)
EndsWithNumber(seg, n) == TrailingDigits(seg) # <<>> /\ StrToNat(TrailingDigits(seg)) = n

sArea0 == <<"a","r","e","a","0">>
sArea1 == <<"a","r","e","a","1">>
sArea2 == <<"a","r","e","a","2">>
sMyCustomAreaCamel == <<"m","y","C","u","s","t","o","m","A","r","e","a">>
sMyCoolArea2 == <<"m","y","C","o","o","l","A","r","e","a","2">>

ThreeUntitledAreas(v) ==
  /\ Len(ChildEntries(v)) = 3
  /\ \A i \in 1..3 : /\ ChildEntries(v)[i].kind = "element"
                     /\ ChildEntries(v)[i].type = "Area"
                     /\ DOMAIN ChildEntries(v)[i].props = {}

Records == Range(result.value)
Occurrences(seq, x) == Cardinality({ i \in DOMAIN seq : seq[i] = x })
\* the list holds each element of want in exactly one record, and no other
HoldsExactly(list, want) ==
  /\ \A e \in want : Cardinality({ i \in DOMAIN list : list[i].element = e }) = 1
  /\ \A i \in DOMAIN list : list[i].element \in want

\* C2 as stated: with the default empty accumulator, every node anywhere in T
\* of type X with no X-typed proper ancestor appears in exactly one record,
\* and no other node appears.
C2_EveryNodeAnywhere ==
  (Finished("getAllElements") /\ elements = <<>> /\ ~result.threw /\ target.kind = "element") =>
    HoldsExactly(result.value,
                 { e \in AllElems(target) :
                     e.type = source /\ \A a \in ProperAncestors(target, e) : a.type # source })

\* C2 amended: with the default empty accumulator, the call throws exactly
\* when a searched element that is not of type X has null among its children
\* (C6); otherwise the list holds, in exactly one record each, the nodes of
\* type X reached from T through traversable elements (typed, not a wrapper,
\* not of type X, entered through their children: one child or the entries of
\* one array, never the entries of an array among them), and no other node.
C2_EveryNodeReached ==
  (Finished("getAllElements") /\ elements = <<>>) =>
    /\ result.threw <=>
         \E e \in Visited(target, source) : e.type # source /\ Null \in Range(ChildEntries(e))
    /\ ~result.threw =>
         HoldsExactly(result.value, { e \in Visited(target, source) : e.type = source })

C2_Witness ==
  /\ Finished("getAllElements") /\ elements = <<>> /\ ~result.threw
  /\ Len(result.value) >= 1
  /\ \E e \in AllElems(target) :
       /\ e.type = source
       /\ \E a \in ProperAncestors(target, e) : a.type = "Fragment"
       /\ \A a \in ProperAncestors(target, e) : a.type # source

\* C3: the call returns exactly the initial accumulator followed by the matches
\* newly discovered under target; each record of the initial accumulator occurs
\* in the result as many times as in the input.
C3_AccumulatorKept ==
  (Finished("getAllElements") /\ ~result.threw) =>
    /\ result.value = elements \o getAllElements(target, source, <<>>, name).value
    /\ \A r \in Range(elements) : Occurrences(result.value, r) = Occurrences(elements, r)

\* the segment getElementName returned for the node at ref
SegmentAt(ref) == (CHOOSE c \in Calls : c.ref = ref).segment
\* the segments of the first n nodes on the way from the root to ref, joined
JoinedSegments(ref, n) == Join([k \in 1..n |-> SegmentAt(SubSeq(ref, 1, k))])

\* C4 as stated: called with name '', a record's name is the concatenation of
\* the segments of the element's ancestors, the element's own segment left out,
\* for every target type.
C4_AncestorsOnly ==
  (Finished("getAllElements") /\ elements = <<>> /\ name = <<>> /\ ~result.threw) =>
    \A r \in Records : r.name = JoinedSegments(r.element.ref, Len(r.element.ref) - 1)

\* C4 amended: called with name '', a record's name is the concatenation, with
\* no separator, of the segments of the element's ancestors below the root
\* followed by the element's own segment; that last segment is empty for
\* ChartTooltip and ChartPopover, for which the name is the ancestors' alone,
\* and is part of the name for Axis, Legend, Line and Bar.
C4_AncestorsAndSelf ==
  (Finished("getAllElements") /\ elements = <<>> /\ name = <<>> /\ ~result.threw) =>
    \A r \in Records :
      /\ r.name = JoinedSegments(r.element.ref, Len(r.element.ref))
      /\ source \in {"ChartTooltip", "ChartPopover"}
           => r.name = JoinedSegments(r.element.ref, Len(r.element.ref) - 1)
      /\ (source \in {"Axis", "Legend", "Line", "Bar"} /\ r.element.ref # <<>>)
           => SegmentAt(r.element.ref) # <<>>

C4_Witness ==
  /\ Finished("getAllElements") /\ elements = <<>> /\ name = <<>> /\ ~result.threw
  /\ \E r \in Records :
       /\ Len(r.element.ref) = 3
       /\ r.element.type = "ChartTooltip"
       /\ r.name = sArea0 \o sLine \o <<"0">>

\* C5: getElement returns the first node in depth-first pre-order whose type is
\* the target among the nodes reachable through traversable nodes, and
\* undefined exactly when there is none.
C5_FirstInPreorder ==
  Finished("getElement") =>
    LET hits == { e \in Reachable(target) : e.type = source }
    IN  IF hits = {} THEN result.value = Undefined
        ELSE /\ result.value \in hits
             /\ \A e \in hits \ {result.value} : Precedes(result.value.ref, e.ref)

C5_Witness ==
  /\ Finished("getElement")
  /\ result.value.kind = "element"
  /\ result.value.type = "Axis"
  /\ \E e \in AllElems(result.value) \ {result.value} : e.type = "Axis"

\* C6: getElement and getAllElements never fault: for every input they return
\* a value, absent (undefined or null) children included.
C6_NeverFaults == pc = "done" => ~result.threw

\* C7: a child of one of the seven named kinds that carries a non-empty name
\* gets toCamelCase(name) ("My Custom Area" gives "myCustomArea") whatever its
\* place and the counts; it gets the positional default only when the name is
\* absent or empty.
C7_OverridePrecedence ==
  Traversed =>
    \A c \in Calls :
      (Child(c).kind = "element" /\ Child(c).type \in CountedTypes \cup {"Trendline"}) =>
        IF HasNameOverride(Child(c))
        THEN /\ c.segment = toCamelCase(Child(c).props.name)
             /\ Child(c).props.name = sMyCustomArea => c.segment = sMyCustomAreaCamel
        ELSE IF Child(c).type = "Trendline" THEN c.segment = sTrendline
        ELSE EndsWithNumber(c.segment, EarlierOfKind(c))

C7_Witness ==
  /\ Traversed
  /\ \E c \in Calls :
       /\ HasNameOverride(Child(c))
       /\ Child(c).type = "Area"
       /\ EarlierOfKind(c) = 1
       /\ c.segment = sMyCustomAreaCamel

\* C8: toCamelCase("MY_COOL_area2") returns "myCoolArea2".
C8_UpperSnakeCase ==
  (Finished("toCamelCase") /\ str = sMY_COOL_area2) => result.value = sMyCoolArea2

\* the default segment of the n-th (from 0) child of a kind
DefaultLabel(type) ==
  CASE type = "Area" -> sArea
    [] type = "Axis" -> sAxis
    [] type = "AxisAnnotation" -> sAnnotation
    [] type = "Bar" -> sBar
    [] type = "Legend" -> sLegend
    [] type = "Line" -> sLine

\* C9: the default segment of a child depends only on its kind and on how many
\* earlier siblings of that kind its own parent has, those with a name override
\* included and those of other kinds not: it is the kind's label followed by
\* that number, and two children of one kind without name override, anywhere in
\* the traversal, get the same segment exactly when they have the same number
\* of earlier siblings of their kind.
C9_CountsPerParentAndKind ==
  Traversed =>
    /\ \A c \in Calls :
         DefaultNamed(c) =>
           c.segment = DefaultLabel(Child(c).type) \o NatToStr(EarlierOfKind(c))
    /\ \A c1, c2 \in Calls :
         (DefaultNamed(c1) /\ DefaultNamed(c2) /\ Child(c1).type = Child(c2).type) =>
           ((EarlierOfKind(c1) = EarlierOfKind(c2)) <=> (c1.segment = c2.segment))

\* the first Area of a parent that follows a Line, and the first Area of
\* another parent, both area0
C9_Witness ==
  /\ Traversed
  /\ \E c1, c2 \in Calls :
       /\ DefaultNamed(c1) /\ DefaultNamed(c2)
       /\ Child(c1).type = Child(c2).type
       /\ ParentRef(c1) # ParentRef(c2)
       /\ Place(c1) > 1
       /\ Siblings(c1)[1].kind = "element"
       /\ Siblings(c1)[1].type \in CountedTypes \ {Child(c1).type}
       /\ EarlierOfKind(c1) = 0 /\ EarlierOfKind(c2) = 0
       /\ c1.segment = c2.segment

TooltipsFound == { e \in Visited(Root, "ChartTooltip") : e.type = "ChartTooltip" }
UniquenessPremises ==
  /\ \A e \in AllElems(Root) : ~HasNameOverride(e)
  /\ \A e \in TooltipsFound :
       \A a \in ProperAncestors(Root, e) : a.ref = <<>> \/ a.type \in CountedTypes
  /\ \A e \in AllElems(Root) :
       Cardinality({ i \in DOMAIN ChildEntries(e) :
                       /\ ChildEntries(e)[i].kind = "element"
                       /\ ChildEntries(e)[i].type = "ChartTooltip" }) <= 1

\* C10: searching for ChartTooltip with an empty accumulator, as useTooltips
\* does, when no node carries a name override, every proper ancestor of a
\* matched element below the root is of a counted kind and no node has two
\* ChartTooltip children, any two distinct records have different names.
C10_UniqueNames ==
  (Traversed /\ source = "ChartTooltip" /\ elements = <<>> /\ name = <<>>
     /\ ~result.threw /\ UniquenessPremises) =>
    \A i, j \in DOMAIN result.value : i # j => result.value[i].name # result.value[j].name

C10_Witness ==
  /\ Finished("getAllElements") /\ source = "ChartTooltip" /\ elements = <<>> /\ name = <<>>
  /\ ~result.threw /\ UniquenessPremises
  /\ Len(result.value) = 2
  /\ Len(result.value[1].element.ref) = 2 /\ Len(result.value[2].element.ref) = 2
  /\ result.value[1].name # result.value[2].name
====
